---- MODULE Spec2Model ----
(***************************************************************************)
(* Model of the multimodal RAG demo: the indexing run of                   *)
(* setup_pipeline.py, the query run of rag_query.py and the JSON session   *)
(* store the query run keeps its chat history in.                          *)
(*                                                                         *)
(* Python strings are modelled in two ways.  The strings the code only     *)
(* passes along (questions, answers, session ids, kind names) are TLA+     *)
(* strings.  The strings the code inspects (an element's text, which is    *)
(* stripped and tested for truth; byte strings; descriptions) are          *)
(* sequences of characters, so that "empty", "blank" and "non-blank" are   *)
(* different values.  None and the empty string are both <<>>: the code    *)
(* only ever tests these values for truth.                                 *)
(***************************************************************************)
EXTENDS Naturals, Sequences, FiniteSets

VARIABLES
    \* ---- the session directory (rag_query.py) ----
    files,        \* session id -> [exists, data]: chat_sessions/<id>.json
    \* ---- a save followed by a load (SpecMemory) ----
    mPc, mId, mTurns, mLoaded,
    \* ---- query runs (SpecQuery) ----
    qpc,          \* run -> the state the run is in
    args,         \* run -> [question, summarize, session_id]
    chat_history, \* run -> the run's local list of messages
    result,       \* run -> [context, summary, answer] of full_rag_chain
    qcalls,       \* run -> the external calls the run has made
    log,          \* the loads and saves of session files, in order
    \* ---- the indexing run (SpecIndexer) ----
    ipc,          \* the place the indexing run is at
    pdf_exists,   \* Path(config.PDF_PATH).exists()
    elements,     \* what partition_pdf returned
    idx,          \* number of elements the for loop has handled
    documents,    \* the Record list
    origin,       \* origin[j]: index of the element documents[j] came from
    outcome,      \* outcome[i]: how summarize_image ended for element i
    icalls,       \* the external calls the indexing run has made
    collection    \* the vector-store collection

memVars == <<mPc, mId, mTurns, mLoaded>>
qVars   == <<qpc, args, chat_history, result, qcalls, log>>
iVars   == <<ipc, pdf_exists, elements, idx, documents, origin, outcome,
             icalls, collection>>
vars    == <<files, memVars, qVars, iVars>>

\* ------------------------------------------------------------------------
\* Bounds
\* ------------------------------------------------------------------------
MaxTurns == 3      \* longest turn sequence handed to save_memory
NRuns    == 2      \* number of query runs
MaxElems == 2      \* most elements partition_pdf returns

\* All sequences over S of length at most n.
SeqUpTo(S, n) == UNION {[1..k -> S] : k \in 0..n}

\* ------------------------------------------------------------------------
\* Conversational memory (rag_query.py, load_memory / save_memory)
\* ------------------------------------------------------------------------
SessionIds == {"s1", "s2"}
Contents   == {"", "x"}

HumanMessage(c) == [cls |-> "HumanMessage", content |-> c]
AIMessage(c)    == [cls |-> "AIMessage", content |-> c]
Messages        == {HumanMessage(c) : c \in Contents}
                       \cup {AIMessage(c) : c \in Contents}

NoFile == [exists |-> FALSE, data |-> <<>>]

\* One entry of history_dicts, as save_memory builds it.
ToDict_AssistantTag(msg) ==
    [type    |-> IF msg.cls = "HumanMessage" THEN "human" ELSE "assistant",
     content |-> msg.content]

ToDict(msg) ==
    [type    |-> IF msg.cls = "HumanMessage" THEN "human" ELSE "ai",
     content |-> msg.content]

\* save_memory: the file is opened for writing and the whole list is dumped.
save_memory(fs, session_id, history_messages) ==
    [fs EXCEPT ![session_id] =
        [exists |-> TRUE,
         data   |-> [i \in 1..Len(history_messages) |->
                        ToDict(history_messages[i])]]]

\* The loop of load_memory: entries that are neither human nor ai are skipped.
RECURSIVE FromDicts(_)
FromDicts(ds) ==
    IF ds = <<>> THEN <<>>
    ELSE LET msg == Head(ds) IN
         (IF msg.type = "human" THEN <<HumanMessage(msg.content)>>
          ELSE IF msg.type = "ai" THEN <<AIMessage(msg.content)>>
          ELSE <<>>) \o FromDicts(Tail(ds))

load_memory(fs, session_id) ==
    IF ~fs[session_id].exists THEN <<>>
    ELSE FromDicts(fs[session_id].data)

\* ------------------------------------------------------------------------
\* A save followed by a load of one session (SpecMemory)
\* ------------------------------------------------------------------------
\* A session file left by an earlier query run.
OldFile == [exists |-> TRUE, data |-> <<ToDict(HumanMessage("x")),
                                        ToDict(AIMessage("x"))>>]

MemIdle ==
    /\ mPc = "idle"
    /\ mId = "s1"
    /\ mTurns = <<>>
    /\ mLoaded = <<>>

MemInit ==
    /\ mPc = "start"
    /\ mId \in SessionIds
    /\ mTurns \in SeqUpTo(Messages, MaxTurns)
    /\ mLoaded = <<>>
    /\ files \in [SessionIds -> {NoFile, OldFile}]

\* save_memory(mId, mTurns)
MemSave ==
    /\ mPc \in {"start", "probed"}
    /\ files' = save_memory(files, mId, mTurns)
    /\ mPc' = "saved"
    /\ UNCHANGED <<mId, mTurns, mLoaded>>

\* load_memory(mId) before anything was saved in this run
MemLoadFirst ==
    /\ mPc = "start"
    /\ mLoaded' = load_memory(files, mId)
    /\ mPc' = "probed"
    /\ UNCHANGED <<files, mId, mTurns>>

\* load_memory(mId) after save_memory(mId, mTurns)
MemLoad ==
    /\ mPc = "saved"
    /\ mLoaded' = load_memory(files, mId)
    /\ mPc' = "loaded"
    /\ UNCHANGED <<files, mId, mTurns>>

\* ------------------------------------------------------------------------
\* The query run (rag_query.py, main)
\* ------------------------------------------------------------------------
Runs      == 1..NRuns
Questions == {"q1", "q2"}
Answers   == {"a1", "a2"}
\* --session_id: absent (None) or empty, both false in `if args.session_id`,
\* or the id of the session the runs share.
NoSession   == ""
SessionArgs == {NoSession, "s1"}

NoResult == [context |-> "", summary |-> "", answer |-> ""]

QIdle ==
    /\ qpc = [r \in Runs |-> "Done"]
    /\ args = [r \in Runs |-> [question |-> "q1", summarize |-> FALSE,
                               session_id |-> NoSession]]
    /\ chat_history = [r \in Runs |-> <<>>]
    /\ result = [r \in Runs |-> NoResult]
    /\ qcalls = [r \in Runs |-> {}]
    /\ log = <<>>

QInit ==
    /\ qpc = [r \in Runs |-> "Connect"]
    /\ args \in [Runs -> [question : Questions, summarize : BOOLEAN,
                          session_id : SessionArgs]]
    /\ chat_history = [r \in Runs |-> <<>>]
    /\ result = [r \in Runs |-> NoResult]
    /\ qcalls = [r \in Runs |-> {}]
    /\ log = <<>>
    /\ files = [s \in SessionIds |-> NoFile]

\* 1. The clients, the vector store and the retriever are built.
ConnectOk(r) ==
    /\ qpc[r] = "Connect"
    /\ qcalls' = [qcalls EXCEPT ![r] = @ \cup {"connect"}]
    /\ qpc' = [qpc EXCEPT ![r] = "LoadHistory"]
    /\ UNCHANGED <<files, args, chat_history, result, log>>

\* 1. One of the constructors raises: the message is printed, main returns.
ConnectFail(r) ==
    /\ qpc[r] = "Connect"
    /\ qcalls' = [qcalls EXCEPT ![r] = @ \cup {"connect"}]
    /\ qpc' = [qpc EXCEPT ![r] = "Error"]
    /\ UNCHANGED <<files, args, chat_history, result, log>>

\* 2. chat_history = load_memory(session_id) when a session id is given.
LoadHistory(r) ==
    /\ qpc[r] = "LoadHistory"
    /\ IF args[r].session_id # NoSession
       THEN /\ chat_history' = [chat_history EXCEPT ![r] =
                                   load_memory(files, args[r].session_id)]
            /\ qcalls' = [qcalls EXCEPT ![r] = @ \cup {"load_memory"}]
            /\ log' = Append(log, [op |-> "load", run |-> r])
       ELSE UNCHANGED <<chat_history, qcalls, log>>
    /\ qpc' = [qpc EXCEPT ![r] = "Retrieve"]
    /\ UNCHANGED <<files, args, result>>

\* 5. full_rag_chain, first assign: the retriever and format_docs.
RetrieveOk(r) ==
    /\ qpc[r] = "Retrieve"
    /\ qcalls' = [qcalls EXCEPT ![r] = @ \cup {"retrieve"}]
    /\ result' = [result EXCEPT ![r].context = "docs"]
    /\ qpc' = [qpc EXCEPT ![r] = "Summarize"]
    /\ UNCHANGED <<files, args, chat_history, log>>

\* The embedding or the search raises: nothing catches it.
RetrieveFail(r) ==
    /\ qpc[r] = "Retrieve"
    /\ qcalls' = [qcalls EXCEPT ![r] = @ \cup {"retrieve"}]
    /\ qpc' = [qpc EXCEPT ![r] = "Crashed"]
    /\ UNCHANGED <<files, args, chat_history, result, log>>

\* 5. second assign: summarizer_chain if --summarize, else "N/A".
SummarizeOk(r) ==
    /\ qpc[r] = "Summarize"
    /\ IF args[r].summarize
       THEN /\ qcalls' = [qcalls EXCEPT ![r] = @ \cup {"llm_summarize"}]
            /\ result' = [result EXCEPT ![r].summary = "summary"]
       ELSE /\ result' = [result EXCEPT ![r].summary = "N/A"]
            /\ UNCHANGED qcalls
    /\ qpc' = [qpc EXCEPT ![r] = "Answer"]
    /\ UNCHANGED <<files, args, chat_history, log>>

SummarizeFail(r) ==
    /\ qpc[r] = "Summarize"
    /\ args[r].summarize
    /\ qcalls' = [qcalls EXCEPT ![r] = @ \cup {"llm_summarize"}]
    /\ qpc' = [qpc EXCEPT ![r] = "Crashed"]
    /\ UNCHANGED <<files, args, chat_history, result, log>>

\* 5. third assign: rag_prompt | llm | StrOutputParser().
AnswerOk(r) ==
    /\ qpc[r] = "Answer"
    /\ \E a \in Answers : result' = [result EXCEPT ![r].answer = a]
    /\ qcalls' = [qcalls EXCEPT ![r] = @ \cup {"llm_answer"}]
    /\ qpc' = [qpc EXCEPT ![r] = "Persist"]
    /\ UNCHANGED <<files, args, chat_history, log>>

\* AnswerFail, had main saved the history in a finally clause.
AnswerFail_SavesAnyway(r) ==
    /\ qpc[r] = "Answer"
    /\ qcalls' = [qcalls EXCEPT ![r] = @ \cup {"llm_answer"}]
    /\ qpc' = [qpc EXCEPT ![r] = "Crashed"]
    /\ files' = IF args[r].session_id # NoSession
                THEN save_memory(files, args[r].session_id, chat_history[r])
                ELSE files
    /\ UNCHANGED <<args, chat_history, result, log>>

AnswerFail(r) ==
    /\ qpc[r] = "Answer"
    /\ qcalls' = [qcalls EXCEPT ![r] = @ \cup {"llm_answer"}]
    /\ qpc' = [qpc EXCEPT ![r] = "Crashed"]
    /\ UNCHANGED <<files, args, chat_history, result, log>>

\* Persist, had it saved the new pair alone instead of the grown history.
Persist_OnlyNewPair(r) ==
    /\ qpc[r] = "Persist"
    /\ IF args[r].session_id # NoSession
       THEN LET h == <<HumanMessage(args[r].question),
                       AIMessage(result[r].answer)>>
            IN /\ chat_history' = [chat_history EXCEPT ![r] = h]
               /\ files' = save_memory(files, args[r].session_id, h)
               /\ qcalls' = [qcalls EXCEPT ![r] = @ \cup {"save_memory"}]
               /\ log' = Append(log, [op |-> "save", run |-> r])
       ELSE UNCHANGED <<chat_history, files, qcalls, log>>
    /\ qpc' = [qpc EXCEPT ![r] = "Done"]
    /\ UNCHANGED <<args, result>>

\* Persist, had it read the file again and appended to what is there now.
Persist_Reloads(r) ==
    /\ qpc[r] = "Persist"
    /\ IF args[r].session_id # NoSession
       THEN LET h == load_memory(files, args[r].session_id)
                        \o <<HumanMessage(args[r].question),
                             AIMessage(result[r].answer)>>
            IN /\ chat_history' = [chat_history EXCEPT ![r] = h]
               /\ files' = save_memory(files, args[r].session_id, h)
               /\ qcalls' = [qcalls EXCEPT ![r] = @ \cup {"save_memory"}]
               /\ log' = Append(log, [op |-> "save", run |-> r])
       ELSE UNCHANGED <<chat_history, files, qcalls, log>>
    /\ qpc' = [qpc EXCEPT ![r] = "Done"]
    /\ UNCHANGED <<args, result>>

\* 6. The question and the answer are appended and the history is saved.
Persist(r) ==
    /\ qpc[r] = "Persist"
    /\ IF args[r].session_id # NoSession
       THEN LET h == chat_history[r]
                        \o <<HumanMessage(args[r].question),
                             AIMessage(result[r].answer)>>
            IN /\ chat_history' = [chat_history EXCEPT ![r] = h]
               /\ files' = save_memory(files, args[r].session_id, h)
               /\ qcalls' = [qcalls EXCEPT ![r] = @ \cup {"save_memory"}]
               /\ log' = Append(log, [op |-> "save", run |-> r])
       ELSE UNCHANGED <<chat_history, files, qcalls, log>>
    /\ qpc' = [qpc EXCEPT ![r] = "Done"]
    /\ UNCHANGED <<args, result>>

\* ------------------------------------------------------------------------
\* The indexing run (setup_pipeline.py)
\* ------------------------------------------------------------------------
PDF_PATH == "data/jemh109.pdf"

Whitespace == {" "}
Texts      == {<<>>, <<" ">>, <<"a">>}
Pages      == {1, 2}
Kinds      == {"Image", "Table", "TableChunk", "NarrativeText"}
\* The kind names that contain "Table".
TableKinds == {"Table", "TableChunk"}
NoBytes    == <<>>
PngBytes   == <<"png">>
NoHtml     == <<>>
TableHtml  == <<"<table>", "</table>">>

\* What partition_pdf can return: image bytes come with Image elements, an
\* HTML rendering with tables (infer_table_structure=True).
Elements ==
    [kind : {"Image"}, text : Texts, image_bytes : {NoBytes, PngBytes},
     text_as_html : {NoHtml}, page_number : Pages]
    \cup
    [kind : TableKinds, text : Texts, image_bytes : {NoBytes},
     text_as_html : {NoHtml, TableHtml}, page_number : Pages]
    \cup
    [kind : {"NarrativeText"}, text : Texts, image_bytes : {NoBytes},
     text_as_html : {NoHtml}, page_number : Pages]

\* str.strip(): leading and trailing whitespace removed.
RECURSIVE LStrip(_)
LStrip(t) ==
    IF t # <<>> /\ Head(t) \in Whitespace THEN LStrip(Tail(t)) ELSE t

RECURSIVE RStrip(_)
RStrip(t) ==
    IF t # <<>> /\ t[Len(t)] \in Whitespace
    THEN RStrip(SubSeq(t, 1, Len(t) - 1)) ELSE t

Strip(t) == RStrip(LStrip(t))

\* How one call of summarize_image ends, and what the vision model says.
Outcomes     == {"ok", "decode_error", "model_error"}
Descriptions == {<<"d">>, <<"d", "e">>}
FallbackSummary == <<"Failed to summarize image">>

\* summarize_image, had the except clause returned an empty summary.
summarize_image_EmptyOnFailure(out, description) ==
    IF out = "ok" THEN description ELSE <<>>

\* summarize_image: the description, or the fallback string on any exception.
summarize_image(out, description) ==
    IF out = "ok" THEN description ELSE FallbackSummary

Document(content, el, type) ==
    [page_content |-> content,
     metadata |-> [source |-> PDF_PATH, page_number |-> el.page_number,
                   type |-> type]]

\* An int formatted into an f-string.
IntStr(n) == IF n = 1 THEN "1" ELSE IF n = 2 THEN "2" ELSE "n"

\* The content of a table Record.
TableContent(el) ==
    IF el.text_as_html # NoHtml
    THEN <<"Table on page ", IntStr(el.page_number), ":\n">>
             \o el.text_as_html
    ELSE el.text

NoCollection  == [exists |-> FALSE, docs |-> <<>>]
\* The collection a previous indexing run left.
OldCollection ==
    [exists |-> TRUE,
     docs |-> <<[page_content |-> <<"o">>,
                 metadata |-> [source |-> PDF_PATH, page_number |-> 1,
                               type |-> "NarrativeText"]]>>]

IIdle ==
    /\ ipc = "Done"
    /\ pdf_exists = FALSE
    /\ elements = <<>>
    /\ idx = 0
    /\ documents = <<>>
    /\ origin = <<>>
    /\ outcome = <<>>
    /\ icalls = {}
    /\ collection = NoCollection

IInit ==
    /\ ipc = "CheckPdf"
    /\ pdf_exists \in BOOLEAN
    /\ elements = <<>>
    /\ idx = 0
    /\ documents = <<>>
    /\ origin = <<>>
    /\ outcome = <<>>
    /\ icalls = {}
    /\ collection \in {NoCollection, OldCollection}

\* PdfMissing without its return: the run goes on.
PdfMissing_NoReturn ==
    /\ ipc = "CheckPdf"
    /\ ~pdf_exists
    /\ ipc' = "InitModels"
    /\ UNCHANGED <<pdf_exists, elements, idx, documents, origin, outcome,
                   icalls, collection>>

\* if not Path(config.PDF_PATH).exists(): return
PdfMissing ==
    /\ ipc = "CheckPdf"
    /\ ~pdf_exists
    /\ ipc' = "AbortNoPdf"
    /\ UNCHANGED <<pdf_exists, elements, idx, documents, origin, outcome,
                   icalls, collection>>

PdfFound ==
    /\ ipc = "CheckPdf"
    /\ pdf_exists
    /\ ipc' = "InitModels"
    /\ UNCHANGED <<pdf_exists, elements, idx, documents, origin, outcome,
                   icalls, collection>>

\* 1. The calls of the try block, in order.
InitCalls == <<"embedding_client", "vision_client", "vision_test">>

InitModelsOk ==
    /\ ipc = "InitModels"
    /\ icalls' = icalls \cup {InitCalls[k] : k \in 1..Len(InitCalls)}
    /\ ipc' = "Partition"
    /\ UNCHANGED <<pdf_exists, elements, idx, documents, origin, outcome,
                   collection>>

\* 1. The n-th call of the try block raises: messages are printed, return.
InitModelsFail ==
    /\ ipc = "InitModels"
    /\ \E n \in 1..Len(InitCalls) :
          icalls' = icalls \cup {InitCalls[k] : k \in 1..n}
    /\ ipc' = "AbortInit"
    /\ UNCHANGED <<pdf_exists, elements, idx, documents, origin, outcome,
                   collection>>

\* 2. elements = partition_pdf(...)
PartitionOk ==
    /\ ipc = "Partition"
    /\ elements' \in SeqUpTo(Elements, MaxElems)
    /\ icalls' = icalls \cup {"partition_pdf"}
    /\ ipc' = "Loop"
    /\ UNCHANGED <<pdf_exists, idx, documents, origin, outcome, collection>>

\* 2. partition_pdf raises: messages are printed, return.
PartitionFail ==
    /\ ipc = "Partition"
    /\ icalls' = icalls \cup {"partition_pdf"}
    /\ ipc' = "AbortPartition"
    /\ UNCHANGED <<pdf_exists, elements, idx, documents, origin, outcome,
                   collection>>

\* 3. The body of `for el in elements`, one action per branch.
InLoop == ipc = "Loop" /\ idx < Len(elements)
Cur    == elements[idx + 1]

\* The element is handled and yields the Record doc.
Emit(doc, out) ==
    /\ documents' = Append(documents, doc)
    /\ origin' = Append(origin, idx + 1)
    /\ outcome' = Append(outcome, out)
    /\ idx' = idx + 1

\* The element is handled and yields nothing.
Skip ==
    /\ outcome' = Append(outcome, "none")
    /\ idx' = idx + 1
    /\ UNCHANGED <<documents, origin>>

\* element_type == "Image", with image bytes: the summary is the content.
ProcessImage ==
    /\ InLoop
    /\ Cur.kind = "Image"
    /\ Cur.image_bytes # NoBytes
    /\ \E out \in Outcomes, description \in Descriptions :
          /\ Emit(Document(summarize_image(out, description), Cur,
                           "image_summary"), out)
          /\ icalls' = icalls \cup (IF out = "decode_error" THEN {}
                                    ELSE {"vision_invoke"})
    /\ UNCHANGED <<ipc, pdf_exists, elements, collection>>

\* element_type == "Image", without image bytes: nothing is appended and the
\* elif branches are not tried.
SkipImage ==
    /\ InLoop
    /\ Cur.kind = "Image"
    /\ Cur.image_bytes = NoBytes
    /\ Skip
    /\ UNCHANGED <<ipc, pdf_exists, elements, icalls, collection>>

\* "Table" in element_type
ProcessTable ==
    /\ InLoop
    /\ Cur.kind # "Image"
    /\ Cur.kind \in TableKinds
    /\ Emit(Document(TableContent(Cur), Cur, "table"), "none")
    /\ UNCHANGED <<ipc, pdf_exists, elements, icalls, collection>>

\* el.text.strip() is true: a text Record typed by the element's kind.
ProcessText ==
    /\ InLoop
    /\ Cur.kind # "Image"
    /\ Cur.kind \notin TableKinds
    /\ Strip(Cur.text) # <<>>
    /\ Emit(Document(Cur.text, Cur, Cur.kind), "none")
    /\ UNCHANGED <<ipc, pdf_exists, elements, icalls, collection>>

\* No branch applies: the element is dropped.
DropElement ==
    /\ InLoop
    /\ Cur.kind # "Image"
    /\ Cur.kind \notin TableKinds
    /\ Strip(Cur.text) = <<>>
    /\ Skip
    /\ UNCHANGED <<ipc, pdf_exists, elements, icalls, collection>>

\* NoDocuments without its return: the run goes on to the vector store.
NoDocuments_NoReturn ==
    /\ ipc = "Loop"
    /\ idx = Len(elements)
    /\ documents = <<>>
    /\ ipc' = "Store"
    /\ UNCHANGED <<pdf_exists, elements, idx, documents, origin, outcome,
                   icalls, collection>>

\* if not documents: return
NoDocuments ==
    /\ ipc = "Loop"
    /\ idx = Len(elements)
    /\ documents = <<>>
    /\ ipc' = "AbortNoDocs"
    /\ UNCHANGED <<pdf_exists, elements, idx, documents, origin, outcome,
                   icalls, collection>>

HaveDocuments ==
    /\ ipc = "Loop"
    /\ idx = Len(elements)
    /\ documents # <<>>
    /\ ipc' = "Store"
    /\ UNCHANGED <<pdf_exists, elements, idx, documents, origin, outcome,
                   icalls, collection>>

\* 4. Qdrant.from_documents(..., force_recreate=True): the collection is
\* dropped and recreated with the Records.
StoreOk ==
    /\ ipc = "Store"
    /\ icalls' = icalls \cup {"vector_store"}
    /\ collection' = [exists |-> TRUE, docs |-> documents]
    /\ ipc' = "Done"
    /\ UNCHANGED <<pdf_exists, elements, idx, documents, origin, outcome>>

\* 4. from_documents raises, before or after it recreated the collection;
\* nothing catches it.
StoreFail ==
    /\ ipc = "Store"
    /\ icalls' = icalls \cup {"vector_store"}
    /\ collection' \in {collection, [exists |-> TRUE, docs |-> <<>>]}
    /\ ipc' = "Crashed"
    /\ UNCHANGED <<pdf_exists, elements, idx, documents, origin, outcome>>

\* ------------------------------------------------------------------------
\* Specifications
\* ------------------------------------------------------------------------
\* save_memory then load_memory on one session id.
InitMemory == MemInit /\ QIdle /\ IIdle
NextMemory ==
    \/ MemSave /\ UNCHANGED <<qVars, iVars>>
    \/ MemLoadFirst /\ UNCHANGED <<qVars, iVars>>
    \/ MemLoad /\ UNCHANGED <<qVars, iVars>>
SpecMemory == InitMemory /\ [][NextMemory]_vars

\* NRuns query runs, interleaved in every way.
InitQuery == QInit /\ MemIdle /\ IIdle
QueryStep(r) ==
    \/ ConnectOk(r)
    \/ ConnectFail(r)
    \/ LoadHistory(r)
    \/ RetrieveOk(r)
    \/ RetrieveFail(r)
    \/ SummarizeOk(r)
    \/ SummarizeFail(r)
    \/ AnswerOk(r)
    \/ AnswerFail(r)
    \/ Persist(r)
NextQuery == \E r \in Runs : QueryStep(r) /\ UNCHANGED <<memVars, iVars>>
SpecQuery == InitQuery /\ [][NextQuery]_vars

\* One indexing run.
InitIndexer ==
    /\ IInit /\ QIdle /\ MemIdle
    /\ files = [s \in SessionIds |-> NoFile]
IndexerStep ==
    \/ PdfMissing
    \/ PdfFound
    \/ InitModelsOk
    \/ InitModelsFail
    \/ PartitionOk
    \/ PartitionFail
    \/ ProcessImage
    \/ SkipImage
    \/ ProcessTable
    \/ ProcessText
    \/ DropElement
    \/ NoDocuments
    \/ HaveDocuments
    \/ StoreOk
    \/ StoreFail
NextIndexer == IndexerStep /\ UNCHANGED <<files, memVars, qVars>>
SpecIndexer == InitIndexer /\ [][NextIndexer]_vars

\* ------------------------------------------------------------------------
\* Claims about the conversational memory (SpecMemory)
\* ------------------------------------------------------------------------
\* C1: save_memory(id, turns) followed by load_memory(id) returns a sequence
\* equal to turns in length, in order, in the role of each turn and in the
\* content of each turn.
C1_RoundTrip ==
    mPc = "loaded" =>
        /\ Len(mLoaded) = Len(mTurns)
        /\ \A i \in 1..Len(mTurns) :
              /\ mLoaded[i].cls = mTurns[i].cls
              /\ mLoaded[i].content = mTurns[i].content

\* A sequence with both roles, an ai turn first, was saved over an older
\* file and loaded back.
C1_Witness ==
    /\ mPc = "loaded"
    /\ Len(mTurns) >= 2
    /\ mTurns[1].cls = "AIMessage"
    /\ mTurns[2].cls = "HumanMessage"
    /\ mTurns[1].content # mTurns[2].content

\* ------------------------------------------------------------------------
\* Claims about the query run (SpecQuery)
\* ------------------------------------------------------------------------
TheSession == "s1"

\* The two turns run r appends.
PairOf(r) ==
    <<[type |-> "human", content |-> args[r].question],
      [type |-> "ai", content |-> result[r].answer]>>

\* The position in log of run r's load (op = "load") or save, 0 if none.
Pos(op, r) ==
    IF \E k \in 1..Len(log) : log[k] = [op |-> op, run |-> r]
    THEN CHOOSE k \in 1..Len(log) : log[k] = [op |-> op, run |-> r]
    ELSE 0

\* The runs are sequential: every load is directly followed by the save of
\* the same run.
Sequential ==
    \A k \in 1..Len(log) :
        IF k % 2 = 1
        THEN log[k].op = "load"
        ELSE log[k] = [op |-> "save", run |-> log[k - 1].run]

\* C2: starting from no session file, after n sequential completed runs on
\* one session id the file holds exactly the 2n turns human q_1, ai a_1, ...,
\* human q_n, ai a_n: every run keeps the earlier turns as a prefix and
\* appends its own human turn and then its own ai turn.
C2_SequentialRuns ==
    Sequential =>
        LET n == Len(log) \div 2 IN
        IF n = 0 THEN files[TheSession] = NoFile
        ELSE /\ files[TheSession].exists
             /\ Len(files[TheSession].data) = 2 * n
             /\ \A k \in 1..n :
                   /\ files[TheSession].data[2 * k - 1]
                          = PairOf(log[2 * k].run)[1]
                   /\ files[TheSession].data[2 * k]
                          = PairOf(log[2 * k].run)[2]

\* Two runs with different questions have completed one after the other.
C2_Witness ==
    /\ Sequential
    /\ Len(log) = 4
    /\ args[log[2].run].question # args[log[4].run].question
    /\ \A r \in {log[2].run, log[4].run} : qpc[r] = "Done"

\* The content of the session file after the first k events of log, if every
\* save writes what its run loaded followed by the run's own two turns.
RECURSIVE FileAt(_)
FileAt(k) ==
    IF k = 0 THEN <<>>
    ELSE IF log[k].op = "load" THEN FileAt(k - 1)
    ELSE FileAt(Pos("load", log[k].run) - 1) \o PairOf(log[k].run)

\* C8: the last writer wins.  The session file is at all times what the
\* latest save wrote: the history that run loaded plus its own
\* question/answer pair.  So when two runs both load before either saves, the
\* pair of the run that saves first is lost, and when one saves before the
\* other loads both pairs are there.
C8_LastWriterWins ==
    /\ files[TheSession].data = FileAt(Len(log))
    /\ files[TheSession].exists
           = (\E k \in 1..Len(log) : log[k].op = "save")
    /\ \A s \in SessionIds \ {TheSession} : files[s] = NoFile

\* A lost update: both runs loaded the empty history, both saved, and the
\* file holds only the pair of the run that saved last.
C8_Witness ==
    /\ Len(log) = 4
    /\ log[1].op = "load" /\ log[2].op = "load"
    /\ log[3].op = "save" /\ log[4].op = "save"
    /\ log[3].run # log[4].run
    /\ args[log[3].run].question # args[log[4].run].question
    /\ files[TheSession].data = PairOf(log[4].run)

\* The order of the states of a run.
Successors ==
    {<<"Connect", "LoadHistory">>, <<"Connect", "Error">>,
     <<"LoadHistory", "Retrieve">>,
     <<"Retrieve", "Summarize">>, <<"Retrieve", "Crashed">>,
     <<"Summarize", "Answer">>, <<"Summarize", "Crashed">>,
     <<"Answer", "Persist">>, <<"Answer", "Crashed">>,
     <<"Persist", "Done">>}

\* The calls a run has made when it is in a state.
CallsBy(state, a) ==
    LET s == IF a.session_id # NoSession THEN {"load_memory"} ELSE {}
        m == IF a.summarize THEN {"llm_summarize"} ELSE {}
    IN CASE state = "Connect" -> {{}}
         [] state = "Error" -> {{"connect"}}
         [] state = "LoadHistory" -> {{"connect"}}
         [] state = "Retrieve" -> {{"connect"} \cup s}
         [] state = "Summarize" -> {{"connect", "retrieve"} \cup s}
         [] state = "Answer" -> {{"connect", "retrieve"} \cup s \cup m}
         [] state = "Persist" ->
                {{"connect", "retrieve", "llm_answer"} \cup s \cup m}
         [] state = "Done" ->
                {{"connect", "retrieve", "llm_answer"} \cup s \cup m
                   \cup (IF a.session_id # NoSession THEN {"save_memory"}
                         ELSE {})}
         [] state = "Crashed" ->
                {{"connect", "retrieve"} \cup s,
                 {"connect", "retrieve", "llm_summarize"} \cup s,
                 {"connect", "retrieve", "llm_answer"} \cup s \cup m}

\* C9: a run goes through Connect, LoadHistory, Retrieve, Summarize, Answer,
\* Persist, Done in that order and never back, and makes no call twice; a
\* failure in Connect ends it in Error with no load, retrieval, model call or
\* file write; a failure in Retrieve, Summarize or Answer ends it before
\* Persist; the session files change only in the step from Persist to Done.
C9_StrictSequence ==
    [][/\ \A r \in Runs :
             /\ qpc'[r] # qpc[r] => <<qpc[r], qpc'[r]>> \in Successors
             /\ qpc'[r] = qpc[r] =>
                   /\ qcalls'[r] = qcalls[r]
                   /\ chat_history'[r] = chat_history[r]
             /\ qcalls'[r] \in CallsBy(qpc'[r], args[r])
       /\ files' # files =>
             \E r \in Runs : qpc[r] = "Persist" /\ qpc'[r] = "Done"
      ]_vars

\* One run failed in Connect and another, with a session, failed in Answer.
C9_Witness ==
    \E r1, r2 \in Runs :
        /\ qpc[r1] = "Error"
        /\ qpc[r2] = "Crashed"
        /\ "llm_answer" \in qcalls[r2]
        /\ args[r2].session_id # NoSession
        /\ files[TheSession] = NoFile

\* ------------------------------------------------------------------------
\* Claims about the indexing run (SpecIndexer)
\* ------------------------------------------------------------------------
Aborts   == {"AbortNoPdf", "AbortInit", "AbortPartition", "AbortNoDocs"}
Failures == {"decode_error", "model_error"}

\* The Records that came from element i.
RecordsOf(i) == {j \in 1..Len(documents) : origin[j] = i}

Blank(el) == Strip(el.text) = <<>>

\* C3: no Record comes from an element, of any kind, whose text is blank and
\* which has no image bytes.
C3_DropInvariant ==
    \A j \in 1..Len(documents) :
        ~(Blank(elements[origin[j]])
             /\ elements[origin[j]].image_bytes = NoBytes)

\* C4: every Record has non-empty content, whatever the kind of the element
\* it came from.
C4_NonEmptyContent ==
    \A j \in 1..Len(documents) : documents[j].page_content # <<>>

\* C5 as stated: an element whose summarization failed is dropped, that is,
\* no Record in the list comes from it.
C5_FailedImageDropped ==
    \A j \in 1..Len(documents) : outcome[origin[j]] \notin Failures

\* The Record element el yields when no summarization fails; the content of
\* an image Record is then whatever the vision model said.
Unfailed(doc, el) ==
    /\ doc.metadata.source = PDF_PATH
    /\ doc.metadata.page_number = el.page_number
    /\ IF el.kind = "Image"
       THEN /\ doc.metadata.type = "image_summary"
            /\ doc.page_content \in Descriptions
       ELSE IF el.kind \in TableKinds
       THEN /\ doc.metadata.type = "table"
            /\ doc.page_content
                 = IF el.text_as_html # NoHtml
                   THEN <<"Table on page ", IntStr(el.page_number), ":\n">>
                            \o el.text_as_html
                   ELSE el.text
       ELSE /\ doc.metadata.type = el.kind
            /\ doc.page_content = el.text

\* C5, amended: a failed summarization does not abort the run, and the
\* element is kept: exactly one Record comes from it, an image_summary whose
\* content is the fallback string; the Records of the other elements are what
\* they are without the failure, in the order of the elements.
C5_FailSoft ==
    /\ \A i \in 1..idx :
          outcome[i] \in Failures =>
              /\ Cardinality(RecordsOf(i)) = 1
              /\ \A j \in RecordsOf(i) :
                    documents[j] =
                        [page_content |-> <<"Failed to summarize image">>,
                         metadata |-> [source |-> PDF_PATH,
                                       page_number |-> elements[i].page_number,
                                       type |-> "image_summary"]]
              /\ ipc \notin Aborts
    /\ \A j \in 1..Len(documents) :
          outcome[origin[j]] \notin Failures =>
              Unfailed(documents[j], elements[origin[j]])
    /\ \A j, k \in 1..Len(documents) : j < k => origin[j] < origin[k]

\* A run whose first image could not be summarized has indexed the fallback
\* Record and the Record of the next element.
C5_Witness ==
    /\ ipc = "Done"
    /\ Len(elements) = 2
    /\ outcome[1] = "model_error"
    /\ Len(documents) = 2
    /\ collection.docs = documents

\* C6: when the PDF does not exist the run aborts before any model call,
\* before the partitioning call and before any vector-store call.
C6_MissingPdfNoCalls ==
    ~pdf_exists =>
        /\ icalls = {}
        /\ ipc \in {"CheckPdf", "AbortNoPdf"}
        /\ elements = <<>>
        /\ documents = <<>>

\* The run has aborted on the missing PDF.
C6_Witness == ~pdf_exists /\ ipc = "AbortNoPdf"

\* C7: the collection changes only in the vector-store call, and that call
\* is made only with at least one Record; a run that aborted (PDF missing,
\* model initialization failed, partitioning raised, no Records) made no
\* vector-store call.
C7_AbortsLeaveCollection ==
    [][/\ collection' # collection =>
             ipc = "Store" /\ documents # <<>>
       /\ "vector_store" \in icalls' => documents' # <<>>
       /\ ipc' \in Aborts => "vector_store" \notin icalls'
      ]_vars

\* A run over elements that all were dropped has aborted and the collection
\* of the previous run is still there.
C7_Witness ==
    /\ ipc = "AbortNoDocs"
    /\ Len(elements) > 0
    /\ collection = OldCollection
    /\ "vector_store" \notin icalls

\* C10: an element with image bytes yields one image Record; else one whose
\* kind contains "Table" yields one table Record; else one with non-blank
\* text, whatever its kind, yields one text Record with the element's text
\* as content and its kind as type; only an element with blank text and no
\* image bytes yields nothing.
C10_Classification ==
    \A i \in 1..idx :
        LET el == elements[i] IN
        IF el.image_bytes # NoBytes
        THEN /\ Cardinality(RecordsOf(i)) = 1
             /\ \A j \in RecordsOf(i) :
                   documents[j].metadata.type = "image_summary"
        ELSE IF el.kind \in TableKinds
        THEN /\ Cardinality(RecordsOf(i)) = 1
             /\ \A j \in RecordsOf(i) : documents[j].metadata.type = "table"
        ELSE IF ~Blank(el)
        THEN /\ Cardinality(RecordsOf(i)) = 1
             /\ \A j \in RecordsOf(i) :
                   /\ documents[j].page_content = el.text
                   /\ documents[j].metadata.type = el.kind
        ELSE RecordsOf(i) = {}

====
